---- MODULE Spec2Model ----
(***************************************************************************)
(* Batch orchestration of arxiv_hydra.py: profile discovery, the          *)
(* per-profile pipeline (process_single_config), the aggregation loop     *)
(* (process_all_configs) and the summary notifier                         *)
(* (send_batch_summary_notification).                                     *)
(*                                                                         *)
(* Strings are sequences of tokens.  A token is either a marker the code  *)
(* searches for ("sync_", the researcher suffix, the table suffix, " ",   *)
(* "#") or an opaque piece of text.                                       *)
(***************************************************************************)
EXTENDS Integers, Sequences, FiniteSets, TLC

VARIABLES
    pc,                 \* position of the single thread of control
    FEISHU_AVAILABLE,   \* module-level flag set by the import at load time
    BATCH_MODE,         \* os.environ["BATCH_MODE"]: Unset or its value
    sync_configs,       \* process_all_configs: discovered profile ids
    idx,                \* process_all_configs: profiles taken from the loop
    all_results,        \* process_all_configs: collected results
    total_new_papers,   \* process_all_configs: accumulator
    successful_configs, \* process_all_configs: accumulator
    config_name,        \* process_single_config: parameter
    cfg,                \* process_single_config: parsed document
    final_cfg,          \* process_single_config: effective configuration
    keywords,           \* process_single_config: (interest, exclude, raw)
    papers,             \* process_single_config: retrieved papers
    ranked_papers,      \* process_single_config: ranked papers
    sync_result,        \* process_single_config: value the sync call returned
    synced_count,       \* process_single_config: local
    exc,                \* process_single_config: exception caught at line 227
    result,             \* value returned by process_single_config
    events,             \* calls and steps of the current runner invocation
    invoked,            \* profile ids process_single_config was called with
    notifier,           \* calls of send_batch_summary_notification and outcome
    ret                 \* value returned by process_all_configs

vars == <<pc, FEISHU_AVAILABLE, BATCH_MODE, sync_configs, idx,
          all_results, total_new_papers, successful_configs, config_name,
          cfg, final_cfg, keywords, papers, ranked_papers, sync_result,
          synced_count, exc, result, events, invoked, notifier, ret>>

(***************************************************************************)
(* Bounds.                                                                 *)
(***************************************************************************)
MaxProfiles == 2   \* discovered profiles per batch
MaxPapers == 2     \* papers a retrieval call returns

(***************************************************************************)
(* Strings.                                                                *)
(***************************************************************************)
SYNC_PREFIX == "sync_"          \* "sync_"
RESEARCHER == "<researcher>"    \* the suffix removed from user_profile.name
PAPER_TABLE == "<paper-table>"  \* the suffix appended to every table label
SPACE == " "

\* str.replace(old, ""): every occurrence of the token is removed.
Replace(s, old) == SelectSeq(s, LAMBDA c : c # old)

RECURSIVE LStrip(_)
LStrip(s) == IF s # <<>> /\ Head(s) = SPACE THEN LStrip(Tail(s)) ELSE s

RECURSIVE RStrip(_)
RStrip(s) ==
    IF s # <<>> /\ s[Len(s)] = SPACE THEN RStrip(SubSeq(s, 1, Len(s) - 1)) ELSE s

\* str.strip()
Strip(s) == RStrip(LStrip(s))

\* str.startswith(tok)
StartsWith(s, tok) == s # <<>> /\ Head(s) = tok

(***************************************************************************)
(* Configuration documents: nested mappings.  A node is a mapping          *)
(* (t = "map", v a function on keys), a string, a boolean, a number or a   *)
(* list of strings; the payload v of a scalar is its text.                 *)
(***************************************************************************)
Map(f) == [t |-> "map", v |-> f]
Str(s) == [t |-> "str", v |-> s]
Bool(b) == [t |-> "bool", v |-> IF b THEN <<"True">> ELSE <<"False">>]
Num(n) == [t |-> "num", v |-> <<n>>]
List(l) == [t |-> "list", v |-> l]
EmptyMap == Map(<<>>)

IsMap(n) == n.t = "map"
HasKey(m, k) == IsMap(m) /\ k \in DOMAIN m.v

\* dict.get(key, default)
Get(m, k, default) == IF HasKey(m, k) THEN m.v[k] ELSE default

\* Python truth value of a node
Truthy(n) ==
    CASE n.t = "bool" -> n.v = <<"True">>
      [] n.t = "num"  -> n.v # <<"0">>
      [] OTHER        -> n.v # <<>>

\* faulty variant: a section of the override replaces the base section whole
OmegaConfMerge_Shallow(a, b) ==
    Map([k \in DOMAIN a.v \cup DOMAIN b.v |->
            IF k \in DOMAIN b.v THEN b.v[k] ELSE a.v[k]])

\* OmegaConf.merge(a, b): key-wise, recursive where both sides are mappings.
RECURSIVE OmegaConfMerge(_, _)
OmegaConfMerge(a, b) ==
    Map([k \in DOMAIN a.v \cup DOMAIN b.v |->
            IF k \notin DOMAIN b.v THEN a.v[k]
            ELSE IF k \in DOMAIN a.v /\ IsMap(a.v[k]) /\ IsMap(b.v[k])
                 THEN OmegaConfMerge(a.v[k], b.v[k])
                 ELSE b.v[k]])

\* merged_cfg[key] = value
SetKey(m, k, val) == Map([j \in DOMAIN m.v \cup {k} |-> IF j = k THEN val ELSE m.v[j]])

config_mappings ==
    << <<"intelligent_matching_config", "intelligent_matching">>,
       <<"download_config", "download">>,
       <<"display_config", "display">>,
       <<"output_config", "output">> >>

\* faulty variant: only search_config is folded in
ApplyMappings_Skipped(merged_cfg, keyword_cfg, i) == merged_cfg

RECURSIVE ApplyMappings(_, _, _)
ApplyMappings(merged_cfg, keyword_cfg, i) ==
    IF i > Len(config_mappings) THEN merged_cfg
    ELSE LET config_key == config_mappings[i][1]
             global_key == config_mappings[i][2]
             withKey == IF HasKey(merged_cfg, global_key) THEN merged_cfg
                        ELSE SetKey(merged_cfg, global_key, EmptyMap)
         IN  IF HasKey(keyword_cfg, config_key)
             THEN ApplyMappings(
                     SetKey(withKey, global_key,
                            OmegaConfMerge(withKey.v[global_key], keyword_cfg.v[config_key])),
                     keyword_cfg, i + 1)
             ELSE ApplyMappings(merged_cfg, keyword_cfg, i + 1)

\* faulty variant: the legacy sections are not folded into the canonical ones
merge_configs_GenericOnly(global_cfg, keyword_cfg) == OmegaConfMerge(global_cfg, keyword_cfg)

merge_configs(global_cfg, keyword_cfg) ==
    LET merged_cfg == OmegaConfMerge(global_cfg, keyword_cfg)
        searched == IF HasKey(keyword_cfg, "search_config")
                    THEN SetKey(merged_cfg, "search",
                                OmegaConfMerge(merged_cfg.v["search"],
                                               keyword_cfg.v["search_config"]))
                    ELSE merged_cfg
    IN  ApplyMappings(searched, keyword_cfg, 1)

base_cfg ==
    Map("search" :> Map("days" :> Num("7") @@ "max_results" :> Num("300")
                        @@ "max_display" :> Num("10") @@ "min_score" :> Num("0.1")
                        @@ "field" :> Str(<<"all">>))
     @@ "download" :> Map("enabled" :> Bool(FALSE) @@ "max_downloads" :> Num("10")
                          @@ "download_dir" :> Str(<<"downloads">>))
     @@ "intelligent_matching" :>
            Map("enabled" :> Bool(FALSE)
                @@ "score_weights" :> Map("base" :> Num("1.0") @@ "semantic" :> Num("0.3")))
     @@ "display" :> Map("show_ranking" :> Bool(TRUE) @@ "show_scores" :> Bool(TRUE)
                         @@ "show_breakdown" :> Bool(FALSE) @@ "stats" :> Bool(TRUE))
     @@ "output" :> Map("save" :> Bool(TRUE) @@ "save_keywords" :> Bool(FALSE)
                        @@ "include_scores" :> Bool(TRUE) @@ "format" :> Str(<<"markdown">>)))

\* faulty variant: only user_profile marks an extended document
IsExtended_ProfileOnly(c) == HasKey(c, "user_profile")

\* hasattr(cfg, "search_config") or hasattr(cfg, "user_profile")
IsExtended(c) == HasKey(c, "search_config") \/ HasKey(c, "user_profile")

EffectiveConfig(c) == IF IsExtended(c) THEN merge_configs(base_cfg, c) ELSE c

(***************************************************************************)
(* Keywords.                                                               *)
(***************************************************************************)
\* faulty variant: the kept entries are appended as they came
_filter_keywords_Untrimmed(kws) ==
    SelectSeq(kws, LAMBDA k : Strip(k) # <<>> /\ ~StartsWith(Strip(k), "#"))

RECURSIVE _filter_keywords(_)
_filter_keywords(kws) ==
    IF kws = <<>> THEN <<>>
    ELSE LET keyword == Head(kws)
             rest == _filter_keywords(Tail(kws))
         IN  IF keyword = <<>> \/ Strip(keyword) = <<>> THEN rest
             ELSE IF StartsWith(Strip(keyword), "#") THEN rest
             ELSE <<Strip(keyword)>> \o rest

load_keywords_from_config(c) ==
    LET src == IF HasKey(c, "keywords") THEN c.v["keywords"] ELSE c
        raw_interest_keywords == Get(src, "interest_keywords", List(<<>>)).v
        raw_exclude_keywords == Get(src, "exclude_keywords", List(<<>>)).v
    IN  [interest |-> _filter_keywords(raw_interest_keywords),
         exclude |-> _filter_keywords(raw_exclude_keywords),
         raw_interest |-> raw_interest_keywords,
         required |-> Get(c, "required_keywords", EmptyMap)]

(***************************************************************************)
(* Sample profile documents (conf/sync*.yaml) and profile identifiers.     *)
(***************************************************************************)
Robotics == "Robotics"

\* legacy structure (neither search_config nor user_profile), exclusions only
DocLegacy ==
    Map("keywords" :> Map("interest_keywords" :> List(<<>>)
                          @@ "exclude_keywords" :> List(<< <<"survey">> >>))
     @@ "search" :> Map("days" :> Num("3")))

\* extended structure, relative search, interest keywords with a comment line
DocRobotics ==
    Map("user_profile" :> Map("name" :> Str(<<Robotics, SPACE, RESEARCHER>>)
                              @@ "research_area" :> Str(<<"robotics">>))
     @@ "search_config" :> Map("days" :> Num("1"))
     @@ "interest_keywords" :> List(<< <<"#", "core">>, <<SPACE, "robot", SPACE>> >>)
     @@ "exclude_keywords" :> List(<<>>))

\* extended structure, date range enabled with an empty start date
DocNoStart ==
    Map("user_profile" :> Map("name" :> Str(<<Robotics, RESEARCHER>>))
     @@ "search" :> Map("date_range" :> Map("enabled" :> Bool(TRUE)
                                            @@ "start_date" :> Str(<<>>)))
     @@ "interest_keywords" :> List(<< <<"robot">> >>))

\* extended structure, date range given in the legacy section, keyword lists
\* that normalise to nothing
DocRange ==
    Map("search_config" :>
            Map("date_range" :> Map("enabled" :> Bool(TRUE)
                                    @@ "start_date" :> Str(<<"2024-01-01">>)
                                    @@ "end_date" :> Str(<<>>)))
     @@ "user_profile" :> Map("research_area" :> Str(<<"vision">>))
     @@ "interest_keywords" :> List(<< <<"#", "todo">>, <<SPACE>>, <<>> >>))

\* legacy structure, date range enabled and no start_date key at all
DocLegacyNoStart ==
    Map("search" :> Map("date_range" :> Map("enabled" :> Bool(TRUE)))
     @@ "interest_keywords" :> List(<< <<"llm">> >>))

Docs == {DocLegacy, DocRobotics, DocNoStart, DocRange, DocLegacyNoStart}

\* file names matching conf/sync*.yaml, without the extension, as glob lists them
SampleListing ==
    << <<SYNC_PREFIX, "nlp">>, <<SYNC_PREFIX, "a", SYNC_PREFIX, "io">>,
       <<"sync", "all">>, <<SYNC_PREFIX, "cv">> >>

Range(s) == {s[i] : i \in DOMAIN s}
Min(a, b) == IF a <= b THEN a ELSE b

\* glob.glob finds the first n files of the listing, n = 0 included
ProfileLists ==
    {SubSeq(SampleListing, 1, n) : n \in 0..Min(MaxProfiles, Len(SampleListing))}

\* messages str(e) of the exceptions a step may raise
ExcMessages == {<<"connection", "refused">>, <<>>}

(***************************************************************************)
(* Results of process_single_config.  A Python result without the "error" *)
(* key carries NoErrorKey.                                                 *)
(***************************************************************************)
NoErrorKey == <<"<no error key>">>
MISSING_ERROR == <<"config file not found">>
DATE_ERROR == <<"date range search needs a start date">>

user_profile(fc) == Get(fc, "user_profile", EmptyMap)

\* final_cfg.get("user_profile", {}).get("research_area", config_name.replace("sync_", ""))
research_area(fc, name) ==
    Get(user_profile(fc), "research_area", Str(Replace(name, SYNC_PREFIX))).v

\* lines 126, 156: name.replace(researcher, "") + table suffix
table_name_raw(fc) ==
    Replace(Get(user_profile(fc), "name", Str(<<>>)).v, RESEARCHER) \o <<PAPER_TABLE>>

\* lines 212, 223: name.replace(researcher, "").strip() + table suffix
table_name_stripped(fc) ==
    Strip(Replace(Get(user_profile(fc), "name", Str(<<>>)).v, RESEARCHER)) \o <<PAPER_TABLE>>

MissingResult(name) ==
    [config_name |-> name, success |-> FALSE, error |-> MISSING_ERROR,
     new_papers |-> 0, total_papers |-> 0, research_area |-> <<>>,
     table_name |-> <<>>, ranked_papers |-> <<>>]

DateRangeResult(name, fc) ==
    [config_name |-> name, success |-> FALSE, error |-> DATE_ERROR,
     new_papers |-> 0, total_papers |-> 0, research_area |-> research_area(fc, name),
     table_name |-> table_name_raw(fc), ranked_papers |-> <<>>]

\* faulty variant: an empty retrieval is reported as a failure
NoPapersResult_AsFailure(name, fc) ==
    [config_name |-> name, success |-> FALSE, error |-> <<"no papers found">>,
     new_papers |-> 0, total_papers |-> 0, research_area |-> research_area(fc, name),
     table_name |-> table_name_raw(fc), ranked_papers |-> <<>>]

NoPapersResult(name, fc) ==
    [config_name |-> name, success |-> TRUE, error |-> NoErrorKey,
     new_papers |-> 0, total_papers |-> 0, research_area |-> research_area(fc, name),
     table_name |-> table_name_raw(fc), ranked_papers |-> <<>>]

\* faulty variant: a negative count is let through
Max_Unclamped(a, b) == a

Max(a, b) == IF a >= b THEN a ELSE b

\* faulty variant: no representative paper is handed on
FirstOnly_None(s) == <<>>

\* ranked_papers[:1]
FirstOnly(s) == IF s # <<>> THEN SubSeq(s, 1, 1) ELSE <<>>

RankedResult(name, fc, ranked, synced) ==
    [config_name |-> name, success |-> TRUE, error |-> NoErrorKey,
     new_papers |-> Max(synced, 0), total_papers |-> Len(ranked),
     research_area |-> research_area(fc, name),
     table_name |-> table_name_stripped(fc), ranked_papers |-> FirstOnly(ranked)]

\* faulty variant: an unranked run reports no paper at all
NoKeywordsResult_ZeroTotal(name, fc, retrieved) ==
    [config_name |-> name, success |-> TRUE, error |-> NoErrorKey,
     new_papers |-> 0, total_papers |-> 0,
     research_area |-> research_area(fc, name),
     table_name |-> table_name_stripped(fc), ranked_papers |-> <<>>]

NoKeywordsResult(name, fc, retrieved) ==
    [config_name |-> name, success |-> TRUE, error |-> NoErrorKey,
     new_papers |-> 0, total_papers |-> Len(retrieved),
     research_area |-> research_area(fc, name),
     table_name |-> table_name_stripped(fc), ranked_papers |-> <<>>]

\* faulty variant: the handler drops the exception's message
ExceptionResult_NoMessage(name, msg) ==
    [config_name |-> name, success |-> FALSE, error |-> <<"unknown error">>,
     new_papers |-> 0, total_papers |-> 0,
     research_area |-> Replace(name, SYNC_PREFIX),
     table_name |-> Replace(name, SYNC_PREFIX) \o <<PAPER_TABLE>>,
     ranked_papers |-> <<>>]

ExceptionResult(name, msg) ==
    [config_name |-> name, success |-> FALSE, error |-> msg,
     new_papers |-> 0, total_papers |-> 0,
     research_area |-> Replace(name, SYNC_PREFIX),
     table_name |-> Replace(name, SYNC_PREFIX) \o <<PAPER_TABLE>>,
     ranked_papers |-> <<>>]

(***************************************************************************)
(* State after module load, before process_all_configs is called.          *)
(***************************************************************************)
\* values sync_papers_to_feishu may return for n papers: a written count
\* (possibly a negative error code), a boolean, or None
PyInt(n) == [t |-> "int", n |-> n]
PyBool(b) == [t |-> "bool", n |-> IF b THEN 1 ELSE 0]
PyNone == [t |-> "NoneType", n |-> 0]
SyncResults(n) == {PyInt(k) : k \in -1..n} \cup {PyBool(TRUE), PyBool(FALSE), PyNone}

Unset == "<unset>"
None == [t |-> "none", v |-> <<>>]
NoKeywords == [interest |-> <<>>, exclude |-> <<>>, raw_interest |-> <<>>, required |-> EmptyMap]
\* what the notifier has done: calls made to it, payloads handed to
\* notify_paper_updates, what that call returned, the call that raised (if
\* any) and the value the notifier returned
NotifierIdle ==
    [calls |-> 0, dispatched |-> <<>>, transport |-> <<>>, raised |-> <<>>, returned |-> <<>>]

Init ==
    /\ pc = "start"
    /\ FEISHU_AVAILABLE \in BOOLEAN
    /\ BATCH_MODE \in {Unset, "1"}
    /\ sync_configs = <<>>
    /\ idx = 0
    /\ all_results = <<>>
    /\ total_new_papers = 0
    /\ successful_configs = 0
    /\ config_name = <<>>
    /\ cfg = None
    /\ final_cfg = None
    /\ keywords = NoKeywords
    /\ papers = <<>>
    /\ ranked_papers = <<>>
    /\ sync_result = PyNone
    /\ synced_count = 0
    /\ exc = <<>>
    /\ result = <<>>
    /\ events = <<>>
    /\ invoked = <<>>
    /\ notifier = NotifierIdle
    /\ ret = "pending"

aggregate == <<sync_configs, idx, all_results, total_new_papers, successful_configs,
               invoked, notifier, ret>>
globals == <<FEISHU_AVAILABLE>>
locals == <<config_name, cfg, final_cfg, keywords, papers, ranked_papers, sync_result,
            synced_count>>

Count(log, e) == Cardinality({i \in DOMAIN log : log[i] = e})

(***************************************************************************)
(* process_single_config, lines 49-238.                                    *)
(***************************************************************************)
\* return <result> from inside the outer try
Return(r, e) ==
    /\ result' = <<r>>
    /\ events' = events \o e
    /\ exc' = exc
    /\ pc' = "returned"

\* except Exception as e: (lines 227-238)
Except(msg, e) ==
    /\ exc' = <<msg>>
    /\ result' = <<ExceptionResult(config_name, msg)>>
    /\ events' = events \o e \o <<"except">>
    /\ pc' = "returned"

\* lines 56-67: the document does not exist
ConfigMissing ==
    /\ pc = "exists"
    /\ Return(MissingResult(config_name), <<"missing">>)
    /\ UNCHANGED <<aggregate, globals, locals, BATCH_MODE>>

\* lines 72-75: yaml.safe_load and OmegaConf.create
ParseDocument ==
    /\ pc = "exists"
    /\ \E d \in Docs : cfg' = d
    /\ events' = Append(events, "parse")
    /\ pc' = "merge"
    /\ UNCHANGED <<aggregate, globals, BATCH_MODE, exc, result, config_name, final_cfg,
                   keywords, papers, ranked_papers, sync_result, synced_count>>

ParseRaises ==
    /\ pc = "exists"
    /\ \E msg \in ExcMessages : Except(msg, <<"parse">>)
    /\ UNCHANGED <<aggregate, globals, locals, BATCH_MODE>>

\* lines 77-91
MergeConfig ==
    /\ pc = "merge"
    /\ final_cfg' = EffectiveConfig(cfg)
    /\ events' = Append(events, IF IsExtended(cfg) THEN "merge" ELSE "unmerged")
    /\ pc' = "init"
    /\ UNCHANGED <<aggregate, globals, BATCH_MODE, exc, result, config_name, cfg,
                   keywords, papers, ranked_papers, sync_result, synced_count>>

MergeRaises ==
    /\ pc = "merge"
    /\ IsExtended(cfg)
    /\ \E msg \in ExcMessages : Except(msg, <<"merge">>)
    /\ UNCHANGED <<aggregate, globals, locals, BATCH_MODE>>

\* lines 93-101: ArxivAPI(...), PaperRanker(), load_keywords_from_config
InitComponents ==
    /\ pc = "init"
    /\ keywords' = load_keywords_from_config(final_cfg)
    /\ events' = events \o <<"construct", "keywords">>
    /\ pc' = "search"
    /\ UNCHANGED <<aggregate, globals, BATCH_MODE, exc, result, config_name, cfg,
                   final_cfg, papers, ranked_papers, sync_result, synced_count>>

ConstructRaises ==
    /\ pc = "init"
    /\ \E msg \in ExcMessages : Except(msg, <<"construct">>)
    /\ UNCHANGED <<aggregate, globals, locals, BATCH_MODE>>

KeywordsRaise ==
    /\ pc = "init"
    /\ \E msg \in ExcMessages : Except(msg, <<"construct", "keywords">>)
    /\ UNCHANGED <<aggregate, globals, locals, BATCH_MODE>>

search_cfg(fc) == Get(fc, "search", EmptyMap)
date_range_cfg(fc) == Get(search_cfg(fc), "date_range", EmptyMap)

\* line 110: if date_range_cfg.get("enabled", False)
DateRangeEnabled(fc) == Truthy(Get(date_range_cfg(fc), "enabled", Bool(FALSE)))

\* faulty variant: a missing start date defaults to a date instead of ""
start_date_Defaulted(fc) == Get(date_range_cfg(fc), "start_date", Str(<<"1970-01-01">>))

\* line 112: date_range_cfg.get("start_date", "")
start_date(fc) == Get(date_range_cfg(fc), "start_date", Str(<<>>))

\* lines 115-128
DateRangeWithoutStart ==
    /\ pc = "search"
    /\ DateRangeEnabled(final_cfg)
    /\ ~Truthy(start_date(final_cfg))
    /\ Return(DateRangeResult(config_name, final_cfg), <<"no_start_date">>)
    /\ UNCHANGED <<aggregate, globals, locals, BATCH_MODE>>

Paper(i) == [arxiv_id |-> <<"arxiv", ToString(i)>>, title |-> <<"title", ToString(i)>>,
             authors_str |-> <<"authors">>]
PaperList(n) == [i \in 1..n |-> Paper(i)]

\* lines 130-137
GetPapersByDateRange ==
    /\ pc = "search"
    /\ DateRangeEnabled(final_cfg)
    /\ Truthy(start_date(final_cfg))
    /\ \E n \in 0..MaxPapers : papers' = PaperList(n)
    /\ events' = events \o <<"get_papers_by_date_range", "retrieved">>
    /\ pc' = "retrieved"
    /\ UNCHANGED <<aggregate, globals, BATCH_MODE, exc, result, config_name, cfg,
                   final_cfg, keywords, ranked_papers, sync_result, synced_count>>

GetPapersByDateRangeRaises ==
    /\ pc = "search"
    /\ DateRangeEnabled(final_cfg)
    /\ Truthy(start_date(final_cfg))
    /\ \E msg \in ExcMessages : Except(msg, <<"get_papers_by_date_range">>)
    /\ UNCHANGED <<aggregate, globals, locals, BATCH_MODE>>

\* lines 138-145
GetRecentPapers ==
    /\ pc = "search"
    /\ ~DateRangeEnabled(final_cfg)
    /\ \E n \in 0..MaxPapers : papers' = PaperList(n)
    /\ events' = events \o <<"get_recent_papers", "retrieved">>
    /\ pc' = "retrieved"
    /\ UNCHANGED <<aggregate, globals, BATCH_MODE, exc, result, config_name, cfg,
                   final_cfg, keywords, ranked_papers, sync_result, synced_count>>

GetRecentPapersRaises ==
    /\ pc = "search"
    /\ ~DateRangeEnabled(final_cfg)
    /\ \E msg \in ExcMessages : Except(msg, <<"get_recent_papers">>)
    /\ UNCHANGED <<aggregate, globals, locals, BATCH_MODE>>

\* lines 147-158: if not papers
NoPapers ==
    /\ pc = "retrieved"
    /\ papers = <<>>
    /\ Return(NoPapersResult(config_name, final_cfg), <<"no_papers">>)
    /\ UNCHANGED <<aggregate, globals, locals, BATCH_MODE>>

\* line 163: if interest_keywords or exclude_keywords
HasKeywords(kw) == kw.interest # <<>> \/ kw.exclude # <<>>

Reverse(s) == [i \in 1..Len(s) |-> s[Len(s) + 1 - i]]

\* what filter_and_rank_papers may return: some of the papers, best first.
\* Papers are opaque to this file, so which of them survive is immaterial:
\* the k best are taken to be the last k retrieved, latest first.
RankedLists(ps) == {SubSeq(Reverse(ps), 1, k) : k \in 0..Len(ps)}

\* lines 164-177
FilterAndRank ==
    /\ pc = "retrieved"
    /\ papers # <<>>
    /\ HasKeywords(keywords)
    /\ \E r \in RankedLists(papers) : ranked_papers' = r
    /\ events' = Append(events, "filter_and_rank_papers")
    /\ pc' = "ranked"
    /\ UNCHANGED <<aggregate, globals, BATCH_MODE, exc, result, config_name, cfg,
                   final_cfg, keywords, papers, sync_result, synced_count>>

FilterAndRankRaises ==
    /\ pc = "retrieved"
    /\ papers # <<>>
    /\ HasKeywords(keywords)
    /\ \E msg \in ExcMessages : Except(msg, <<"filter_and_rank_papers">>)
    /\ UNCHANGED <<aggregate, globals, locals, BATCH_MODE>>

\* lines 217-225
ReturnUnranked ==
    /\ pc = "retrieved"
    /\ papers # <<>>
    /\ ~HasKeywords(keywords)
    /\ Return(NoKeywordsResult(config_name, final_cfg, papers), <<"no_keywords">>)
    /\ UNCHANGED <<aggregate, globals, locals, BATCH_MODE>>

\* faulty variant: the sync is tried without the table-sync module
ShouldSync_IgnoresModule(ranked, available) == ranked # <<>>

\* line 180: if ranked_papers and FEISHU_AVAILABLE
ShouldSync(ranked, available) == ranked # <<>> /\ available

\* line 182: os.environ["BATCH_MODE"] = "1"
SetBatchMode ==
    /\ pc = "ranked"
    /\ ShouldSync(ranked_papers, FEISHU_AVAILABLE)
    /\ BATCH_MODE' = "1"
    /\ events' = Append(events, "set")
    /\ pc' = "sync_call"
    /\ UNCHANGED <<aggregate, globals, locals, exc, result>>

\* lines 204-215 when the sync block is skipped
ReturnWithoutSync ==
    /\ pc = "ranked"
    /\ ~ShouldSync(ranked_papers, FEISHU_AVAILABLE)
    /\ Return(RankedResult(config_name, final_cfg, ranked_papers, synced_count),
              <<"no_sync">>)
    /\ UNCHANGED <<aggregate, globals, locals, BATCH_MODE>>

\* isinstance(x, int): bool is a subclass of int
IsInstanceInt(x) == x.t \in {"int", "bool"}

\* lines 188-195; a bool kept as synced_count counts as 0 or 1
SyncedCount(r) ==
    IF IsInstanceInt(r) THEN r.n
    ELSE IF r = PyBool(TRUE) THEN 0
    ELSE 0

\* lines 185-195
SyncReturns ==
    /\ pc = "sync_call"
    /\ \E r \in SyncResults(Len(ranked_papers)) :
         /\ sync_result' = r
         /\ synced_count' = SyncedCount(r)
    /\ events' = events \o <<"sync_papers_to_feishu", "sync_returned">>
    /\ pc' = "sync_finally"
    /\ UNCHANGED <<aggregate, globals, BATCH_MODE, exc, result, config_name, cfg,
                   final_cfg, keywords, papers, ranked_papers>>

\* faulty variant: no inner handler, the sync error reaches the outer one
SyncRaises_Propagates ==
    /\ pc = "sync_call"
    /\ BATCH_MODE' = Unset
    /\ \E msg \in ExcMessages :
         Except(msg, <<"sync_papers_to_feishu", "sync_raised", "clear">>)
    /\ UNCHANGED <<aggregate, globals, locals>>

\* lines 197-199
SyncRaises ==
    /\ pc = "sync_call"
    /\ synced_count' = 0
    /\ events' = events \o <<"sync_papers_to_feishu", "sync_raised">>
    /\ pc' = "sync_finally"
    /\ UNCHANGED <<aggregate, globals, BATCH_MODE, exc, result, config_name, cfg,
                   final_cfg, keywords, papers, ranked_papers, sync_result>>

\* faulty variant: the flag is left as it is
PopBatchMode_Keeps(env) == env

\* line 202: os.environ.pop("BATCH_MODE", None)
PopBatchMode(env) == Unset

\* faulty variant: no finally clause
SyncFinally_NoClear ==
    /\ pc = "sync_finally"
    /\ Return(RankedResult(config_name, final_cfg, ranked_papers, synced_count), <<>>)
    /\ UNCHANGED <<aggregate, globals, locals, BATCH_MODE>>

\* lines 200-215: finally, then the return of the ranked result
SyncFinally ==
    /\ pc = "sync_finally"
    /\ BATCH_MODE' = PopBatchMode(BATCH_MODE)
    /\ Return(RankedResult(config_name, final_cfg, ranked_papers, synced_count),
              <<"clear">>)
    /\ UNCHANGED <<aggregate, globals, locals>>

(***************************************************************************)
(* send_batch_summary_notification, lines 289-365.                         *)
(***************************************************************************)
\* faulty variant: a success without new papers is reported too
Qualifies_AnySuccess(r) == r.success

\* line 313
Qualifies(r) == r.success /\ r.new_papers > 0

\* line 314: table_name.replace(table suffix, "").strip() or research_area
field_name(r) ==
    LET stripped == Strip(Replace(r.table_name, PAPER_TABLE))
    IN  IF stripped # <<>> THEN stripped ELSE r.research_area

\* faulty variant: the stand-in paper does not name the profile
Placeholder_Anonymous(r) ==
    [arxiv_id |-> <<"batch-">>,
     title |-> field_name(r) \o <<"latest research progress">>,
     authors_str |-> <<"found by batch sync">>]

\* lines 328-337
Placeholder(r) ==
    [arxiv_id |-> <<"batch-">> \o r.config_name,
     title |-> field_name(r) \o <<"latest research progress">>,
     authors_str |-> <<"found by batch sync">>]

NoLink == <<>>
TableLink(table) == <<"link to">> \o table

\* d[k] = val on a dict held as a function
Put(d, k, val) == [j \in DOMAIN d \cup {k} |-> IF j = k THEN val ELSE d[j]]

EmptyPayload == [update_stats |-> <<>>, papers_by_field |-> <<>>, table_links |-> <<>>]

\* lines 312-342 for results[1..n]; linked[i] tells whether generate_table_link
\* gave a link at the call made for results[i]
RECURSIVE BuildPayload(_, _, _)
BuildPayload(results, linked, n) ==
    IF n = 0 THEN EmptyPayload
    ELSE LET before == BuildPayload(results, linked, n - 1)
             r == results[n]
             f == field_name(r)
         IN  IF ~Qualifies(r) THEN before
             ELSE [update_stats |->
                       Put(before.update_stats, f,
                           [new_count |-> r.new_papers, total_count |-> r.total_papers,
                            table_name |-> r.table_name]),
                   papers_by_field |->
                       Put(before.papers_by_field, f,
                           IF r.ranked_papers # <<>> THEN r.ranked_papers
                           ELSE <<Placeholder(r)>>),
                   table_links |->
                       IF linked[n] THEN Put(before.table_links, f, TableLink(r.table_name))
                       ELSE before.table_links]

LinkOutcomes(results) ==
    {l \in [DOMAIN results -> BOOLEAN] : \A i \in DOMAIN results : l[i] => Qualifies(results[i])}

NotifierReturn(val) ==
    /\ ret' = IF val THEN "True" ELSE "False"
    /\ pc' = "done"

\* faulty variant: the transport's answer is dropped
NotifierCompletes_IgnoresTransport ==
    /\ pc = "notify"
    /\ IF ~FEISHU_AVAILABLE
       THEN /\ notifier' = [notifier EXCEPT !.returned = <<FALSE>>]
            /\ NotifierReturn(FALSE)
       ELSE \E linked \in LinkOutcomes(all_results), success \in BOOLEAN :
              LET payload == BuildPayload(all_results, linked, Len(all_results))
              IN  IF payload.update_stats = <<>>
                  THEN /\ notifier' = [notifier EXCEPT !.returned = <<TRUE>>]
                       /\ NotifierReturn(TRUE)
                  ELSE /\ notifier' = [notifier EXCEPT
                                         !.dispatched = Append(@, payload),
                                         !.transport = <<success>>,
                                         !.returned = <<TRUE>>]
                       /\ NotifierReturn(TRUE)
    /\ UNCHANGED <<globals, locals, BATCH_MODE, exc, result, events, sync_configs, idx,
                   all_results, total_new_papers, successful_configs, invoked>>

\* lines 292-294, 344-358: the notifier runs to its return statement
NotifierCompletes ==
    /\ pc = "notify"
    /\ IF ~FEISHU_AVAILABLE
       THEN /\ notifier' = [notifier EXCEPT !.returned = <<FALSE>>]
            /\ NotifierReturn(FALSE)
       ELSE \E linked \in LinkOutcomes(all_results), success \in BOOLEAN :
              LET payload == BuildPayload(all_results, linked, Len(all_results))
              IN  IF payload.update_stats = <<>>
                  THEN /\ notifier' = [notifier EXCEPT !.returned = <<TRUE>>]
                       /\ NotifierReturn(TRUE)
                  ELSE /\ notifier' = [notifier EXCEPT
                                         !.dispatched = Append(@, payload),
                                         !.transport = <<success>>,
                                         !.returned = <<success>>]
                       /\ NotifierReturn(success)
    /\ UNCHANGED <<globals, locals, BATCH_MODE, exc, result, events, sync_configs, idx,
                   all_results, total_new_papers, successful_configs, invoked>>

\* lines 360-365: the handler of the notifier turns an exception raised by
\* the call named site into a False return
NotifierExcept(site) ==
    /\ notifier' = [notifier EXCEPT !.raised = <<site>>, !.returned = <<FALSE>>]
    /\ NotifierReturn(FALSE)

\* lines 299-305: loading conf/default.yaml or building the transport raises
NotifierRaises ==
    /\ pc = "notify"
    /\ FEISHU_AVAILABLE
    /\ \E site \in {"yaml.safe_load", "create_chat_notifier_from_config"} :
         NotifierExcept(site)
    /\ UNCHANGED <<globals, locals, BATCH_MODE, exc, result, events, sync_configs, idx,
                   all_results, total_new_papers, successful_configs, invoked>>

\* line 340: generate_table_link raises at a qualifying result
GenerateLinkRaises ==
    /\ pc = "notify"
    /\ FEISHU_AVAILABLE
    /\ \E i \in DOMAIN all_results : Qualifies(all_results[i])
    /\ NotifierExcept("generate_table_link")
    /\ UNCHANGED <<globals, locals, BATCH_MODE, exc, result, events, sync_configs, idx,
                   all_results, total_new_papers, successful_configs, invoked>>

\* faulty variant: no handler, the exception leaves the notifier and is
\* caught by the caller's
NotifyRaises_Escapes ==
    /\ pc = "notify"
    /\ FEISHU_AVAILABLE
    /\ \E linked \in LinkOutcomes(all_results) :
         LET payload == BuildPayload(all_results, linked, Len(all_results))
         IN  /\ payload.update_stats # <<>>
             /\ notifier' = [notifier EXCEPT !.dispatched = Append(@, payload),
                                             !.raised = <<"notify_paper_updates">>]
    /\ NotifierReturn(FALSE)
    /\ UNCHANGED <<globals, locals, BATCH_MODE, exc, result, events, sync_configs, idx,
                   all_results, total_new_papers, successful_configs, invoked>>

\* lines 349-351, 360-365: notify_paper_updates raises
NotifyRaises ==
    /\ pc = "notify"
    /\ FEISHU_AVAILABLE
    /\ \E linked \in LinkOutcomes(all_results) :
         LET payload == BuildPayload(all_results, linked, Len(all_results))
         IN  /\ payload.update_stats # <<>>
             /\ notifier' = [notifier EXCEPT !.dispatched = Append(@, payload),
                                             !.raised = <<"notify_paper_updates">>,
                                             !.returned = <<FALSE>>]
    /\ NotifierReturn(FALSE)
    /\ UNCHANGED <<globals, locals, BATCH_MODE, exc, result, events, sync_configs, idx,
                   all_results, total_new_papers, successful_configs, invoked>>

(***************************************************************************)
(* process_all_configs, lines 241-286.                                     *)
(***************************************************************************)
\* faulty variant: an empty batch is reported as a success
FindSyncConfigs_EmptySucceeds ==
    /\ pc = "start"
    /\ \E found \in ProfileLists :
         /\ sync_configs' = found
         /\ IF found = <<>>
            THEN ret' = "True" /\ pc' = "done"
            ELSE ret' = ret /\ pc' = "loop"
    /\ UNCHANGED <<globals, locals, BATCH_MODE, exc, result, events, idx, all_results,
                   total_new_papers, successful_configs, invoked, notifier>>

\* lines 248-251: find_sync_configs returns
FindSyncConfigs ==
    /\ pc = "start"
    /\ \E found \in ProfileLists :
         /\ sync_configs' = found
         /\ IF found = <<>>
            THEN ret' = "False" /\ pc' = "done"
            ELSE ret' = ret /\ pc' = "loop"
    /\ UNCHANGED <<globals, locals, BATCH_MODE, exc, result, events, idx, all_results,
                   total_new_papers, successful_configs, invoked, notifier>>

\* lines 248, 284-286: find_sync_configs raises
FindSyncConfigsRaises ==
    /\ pc = "start"
    /\ events' = <<"find_sync_configs", "except">>
    /\ ret' = "False"
    /\ pc' = "done"
    /\ UNCHANGED <<globals, locals, BATCH_MODE, exc, result, sync_configs, idx, all_results,
                   total_new_papers, successful_configs, invoked, notifier>>

\* lines 260-261: the loop takes the next profile and calls the runner
CallRunner ==
    /\ pc = "loop"
    /\ idx < Len(sync_configs)
    /\ idx' = idx + 1
    /\ config_name' = sync_configs[idx + 1]
    /\ invoked' = Append(invoked, sync_configs[idx + 1])
    /\ pc' = "exists"
    /\ UNCHANGED <<globals, BATCH_MODE, sync_configs, all_results, total_new_papers,
                   successful_configs, notifier, ret, cfg, final_cfg, keywords, papers,
                   ranked_papers, sync_result, synced_count, exc, result, events>>

\* the runner's frame is gone once its result has been taken
ResetFrame ==
    /\ config_name' = <<>>
    /\ cfg' = None
    /\ final_cfg' = None
    /\ keywords' = NoKeywords
    /\ papers' = <<>>
    /\ ranked_papers' = <<>>
    /\ sync_result' = PyNone
    /\ synced_count' = 0
    /\ exc' = <<>>
    /\ result' = <<>>
    /\ events' = <<>>

\* faulty variant: the loop is left at the first failed profile
AccumulateResult_StopsOnFailure ==
    /\ pc = "returned"
    /\ all_results' = Append(all_results, result[1])
    /\ IF result[1].success
       THEN /\ successful_configs' = successful_configs + 1
            /\ total_new_papers' = total_new_papers + result[1].new_papers
            /\ idx' = idx
       ELSE /\ UNCHANGED <<successful_configs, total_new_papers>>
            /\ idx' = Len(sync_configs)
    /\ ResetFrame
    /\ pc' = "loop"
    /\ UNCHANGED <<globals, BATCH_MODE, sync_configs, invoked, notifier, ret>>

\* faulty variant: a failed profile is counted as a succeeded one
AccumulateResult_CountsFailures ==
    /\ pc = "returned"
    /\ all_results' = Append(all_results, result[1])
    /\ successful_configs' = successful_configs + 1
    /\ total_new_papers' = total_new_papers + result[1].new_papers
    /\ ResetFrame
    /\ pc' = "loop"
    /\ UNCHANGED <<globals, BATCH_MODE, sync_configs, idx, invoked, notifier, ret>>

\* lines 262-269
AccumulateResult ==
    /\ pc = "returned"
    /\ all_results' = Append(all_results, result[1])
    /\ IF result[1].success
       THEN /\ successful_configs' = successful_configs + 1
            /\ total_new_papers' = total_new_papers + result[1].new_papers
       ELSE UNCHANGED <<successful_configs, total_new_papers>>
    /\ ResetFrame
    /\ pc' = "loop"
    /\ UNCHANGED <<globals, BATCH_MODE, sync_configs, idx, invoked, notifier, ret>>

\* faulty variant: the notifier is called for an all-zero batch too
ShouldNotify_Always(total) == total >= 0

\* line 277
ShouldNotify(total) == total > 0

\* lines 276-279: the loop is over and the notifier is called
CallNotifier ==
    /\ pc = "loop"
    /\ idx = Len(sync_configs)
    /\ ShouldNotify(total_new_papers)
    /\ notifier' = [notifier EXCEPT !.calls = @ + 1]
    /\ pc' = "notify"
    /\ UNCHANGED <<globals, locals, BATCH_MODE, exc, result, events, sync_configs, idx,
                   all_results, total_new_papers, successful_configs, invoked, ret>>

\* lines 280-282
SkipNotification ==
    /\ pc = "loop"
    /\ idx = Len(sync_configs)
    /\ ~ShouldNotify(total_new_papers)
    /\ ret' = "True"
    /\ pc' = "done"
    /\ UNCHANGED <<globals, locals, BATCH_MODE, exc, result, events, sync_configs, idx,
                   all_results, total_new_papers, successful_configs, invoked, notifier>>

Runner ==
    \/ ConfigMissing \/ ParseDocument \/ ParseRaises
    \/ MergeConfig \/ MergeRaises
    \/ InitComponents \/ ConstructRaises \/ KeywordsRaise
    \/ DateRangeWithoutStart
    \/ GetPapersByDateRange \/ GetPapersByDateRangeRaises
    \/ GetRecentPapers \/ GetRecentPapersRaises
    \/ NoPapers \/ FilterAndRank \/ FilterAndRankRaises \/ ReturnUnranked
    \/ SetBatchMode \/ ReturnWithoutSync
    \/ SyncReturns \/ SyncRaises \/ SyncFinally

Next ==
    \/ FindSyncConfigs \/ FindSyncConfigsRaises
    \/ CallRunner \/ Runner \/ AccumulateResult
    \/ CallNotifier \/ SkipNotification
    \/ NotifierCompletes \/ NotifierRaises \/ GenerateLinkRaises \/ NotifyRaises

Spec == Init /\ [][Next]_vars

\* the batch is started from an environment in which BATCH_MODE is not set
InitClean == Init /\ BATCH_MODE = Unset
SpecClean == InitClean /\ [][Next]_vars

\* the batch is started with BATCH_MODE=1 already in the environment
InitPreset == Init /\ BATCH_MODE = "1"
SpecPreset == InitPreset /\ [][Next]_vars

(***************************************************************************)
(* send_batch_summary_notification called on its own, with any list of     *)
(* profile results as argument.                                            *)
(***************************************************************************)
MaxResults == 2   \* results handed to the notifier

ProfileResult(name, ok, new, total, area, table, ranked) ==
    [config_name |-> name, success |-> ok,
     error |-> IF ok THEN NoErrorKey ELSE <<"connection", "refused">>,
     new_papers |-> new, total_papers |-> total, research_area |-> area,
     table_name |-> table, ranked_papers |-> ranked]

\* results with and without new papers, with and without a representative
\* paper, two of them with the same table label, two whose label is the
\* suffix alone (one with the research area another one has as label), and
\* a failed one
SampleResults ==
    {ProfileResult(<<"sync_", "nlp">>, TRUE, 2, 3, <<"robotics">>,
                   <<Robotics, PAPER_TABLE>>, <<Paper(1)>>),
     ProfileResult(<<"sync_", "cv">>, TRUE, 1, 1, <<"robots">>,
                   <<Robotics, PAPER_TABLE>>, <<>>),
     ProfileResult(<<"sync_", "a", "sync_", "io">>, TRUE, 0, 2, <<"audio">>,
                   <<"Audio", PAPER_TABLE>>, <<Paper(2)>>),
     ProfileResult(<<"sync_", "vis">>, TRUE, 1, 2, <<"vision">>,
                   <<SPACE, PAPER_TABLE>>, <<Paper(2)>>),
     ProfileResult(<<"sync_", "rl">>, FALSE, 3, 0, <<"rl">>,
                   <<"RL", PAPER_TABLE>>, <<>>),
     ProfileResult(<<"sync_", "arm">>, TRUE, 1, 1, <<Robotics>>,
                   <<PAPER_TABLE>>, <<Paper(1)>>)}

RECURSIVE ListsOf(_, _)
ListsOf(S, n) ==
    IF n = 0 THEN {<<>>}
    ELSE LET shorter == ListsOf(S, n - 1)
         IN  shorter \cup {Append(l, x) : l \in {m \in shorter : Len(m) = n - 1}, x \in S}

ResultLists == ListsOf(SampleResults, MaxResults)

InitNotifier ==
    /\ pc = "notify"
    /\ FEISHU_AVAILABLE \in BOOLEAN
    /\ BATCH_MODE = Unset
    /\ sync_configs = <<>>
    /\ idx = 0
    /\ all_results \in ResultLists
    /\ total_new_papers = 0
    /\ successful_configs = 0
    /\ config_name = <<>>
    /\ cfg = None
    /\ final_cfg = None
    /\ keywords = NoKeywords
    /\ papers = <<>>
    /\ ranked_papers = <<>>
    /\ sync_result = PyNone
    /\ synced_count = 0
    /\ exc = <<>>
    /\ result = <<>>
    /\ events = <<>>
    /\ invoked = <<>>
    /\ notifier = [NotifierIdle EXCEPT !.calls = 1]
    /\ ret = "pending"

NextNotifier == NotifierCompletes \/ NotifierRaises \/ GenerateLinkRaises \/ NotifyRaises

SpecNotifier == InitNotifier /\ [][NextNotifier]_vars

(***************************************************************************)
(* load_keywords_from_config and _filter_keywords on any raw keyword list. *)
(***************************************************************************)
MaxKeywords == 2     \* entries of a raw keyword list
MaxKeywordLen == 2   \* characters of an entry

KeywordChars == {SPACE, "#", "a"}

RawKeywords == ListsOf(KeywordChars, MaxKeywordLen)
RawKeywordLists == ListsOf(RawKeywords, MaxKeywords)

\* profile documents with a raw interest list, and one without the key
KeywordDocs ==
    {Map("interest_keywords" :> List(l)) : l \in RawKeywordLists} \cup {EmptyMap}

InitKeywords ==
    /\ pc = "init"
    /\ FEISHU_AVAILABLE = FALSE
    /\ BATCH_MODE = Unset
    /\ sync_configs = <<>>
    /\ idx = 0
    /\ all_results = <<>>
    /\ total_new_papers = 0
    /\ successful_configs = 0
    /\ config_name = <<>>
    /\ cfg = None
    /\ final_cfg \in KeywordDocs
    /\ keywords = NoKeywords
    /\ papers = <<>>
    /\ ranked_papers = <<>>
    /\ sync_result = PyNone
    /\ synced_count = 0
    /\ exc = <<>>
    /\ result = <<>>
    /\ events = <<>>
    /\ invoked = <<>>
    /\ notifier = NotifierIdle
    /\ ret = "pending"

NextKeywords == InitComponents

SpecKeywords == InitKeywords /\ [][NextKeywords]_vars

(***************************************************************************)
(* The merge of lines 77-91 on any profile document put together from      *)
(* canonical sections, legacy sections and keys of its own.                *)
(***************************************************************************)
\* the ways a profile document may give (or not give) each of its sections
SectionChoices ==
    << {<<>>,
        <<"search", Map("field" :> Str(<<"cs.RO">>))>>,
        <<"search", Map("days" :> Num("3")
                        @@ "date_range" :> Map("enabled" :> Bool(TRUE)))>>},
       {<<>>,
        <<"search_config", Map("days" :> Num("1"))>>,
        <<"search_config", Map("max_results" :> Num("50") @@ "sort_by" :> Str(<<"date">>))>>},
       {<<>>,
        <<"intelligent_matching", Map("score_weights" :> Map("semantic" :> Num("0.5")))>>},
       {<<>>, <<"intelligent_matching_config",
                Map("enabled" :> Bool(TRUE) @@ "score_weights" :> Map("base" :> Num("2.0")))>>},
       {<<>>, <<"download_config", Map("max_downloads" :> Num("5"))>>},
       {<<>>, <<"display", Map("stats" :> Bool(FALSE))>>},
       {<<>>, <<"display_config", Map("stats" :> Bool(TRUE) @@ "show_scores" :> Bool(FALSE))>>},
       {<<>>, <<"output_config", Map("format" :> Str(<<"json">>))>>},
       {<<>>, <<"user_profile", Map("name" :> Str(<<Robotics, RESEARCHER>>))>>},
       {<<>>, <<"feishu", Map("enabled" :> Bool(TRUE))>>} >>

\* the documents that make one of the first n choices each
RECURSIVE Documents(_)
Documents(n) ==
    IF n = 0 THEN {EmptyMap}
    ELSE {IF c = <<>> THEN d ELSE SetKey(d, c[1], c[2]) :
             d \in Documents(n - 1), c \in SectionChoices[n]}

InitMerge ==
    /\ pc = "merge"
    /\ FEISHU_AVAILABLE = FALSE
    /\ BATCH_MODE = Unset
    /\ sync_configs = <<>>
    /\ idx = 0
    /\ all_results = <<>>
    /\ total_new_papers = 0
    /\ successful_configs = 0
    /\ config_name = <<>>
    /\ cfg \in Documents(Len(SectionChoices))
    /\ final_cfg = None
    /\ keywords = NoKeywords
    /\ papers = <<>>
    /\ ranked_papers = <<>>
    /\ sync_result = PyNone
    /\ synced_count = 0
    /\ exc = <<>>
    /\ result = <<>>
    /\ events = <<>>
    /\ invoked = <<>>
    /\ notifier = NotifierIdle
    /\ ret = "pending"

NextMerge == MergeConfig

SpecMerge == InitMerge /\ [][NextMerge]_vars

(***************************************************************************)
(* merge_configs(c, c): a configuration merged with itself as override.    *)
(***************************************************************************)
\* configurations as they come from a profile document or from a merge
\* with the base defaults; merge_configs reads merged_cfg.search when the
\* override has a search_config, so those without a search section are
\* left out
SelfMergeConfigs ==
    {d \in Documents(Len(SectionChoices)) :
        HasKey(d, "search_config") => HasKey(d, "search")}
    \cup {merge_configs(base_cfg, d) : d \in Documents(Len(SectionChoices))}

\* lines 556-578 called with the same configuration as both arguments
SelfMerge ==
    /\ pc = "merge_configs"
    /\ final_cfg' = merge_configs(cfg, cfg)
    /\ pc' = "merge_configs returned"
    /\ UNCHANGED <<aggregate, globals, BATCH_MODE, exc, result, events, config_name, cfg,
                   keywords, papers, ranked_papers, sync_result, synced_count>>

InitSelfMerge ==
    /\ pc = "merge_configs"
    /\ FEISHU_AVAILABLE = FALSE
    /\ BATCH_MODE = Unset
    /\ sync_configs = <<>>
    /\ idx = 0
    /\ all_results = <<>>
    /\ total_new_papers = 0
    /\ successful_configs = 0
    /\ config_name = <<>>
    /\ cfg \in SelfMergeConfigs
    /\ final_cfg = None
    /\ keywords = NoKeywords
    /\ papers = <<>>
    /\ ranked_papers = <<>>
    /\ sync_result = PyNone
    /\ synced_count = 0
    /\ exc = <<>>
    /\ result = <<>>
    /\ events = <<>>
    /\ invoked = <<>>
    /\ notifier = NotifierIdle
    /\ ret = "pending"

NextSelfMerge == SelfMerge

SpecSelfMerge == InitSelfMerge /\ [][NextSelfMerge]_vars

(***************************************************************************)
(* Properties.                                                             *)
(***************************************************************************)
RunnerActive ==
    pc \in {"exists", "merge", "init", "search", "retrieved", "ranked", "sync_call",
            "sync_finally", "returned"}

\* the profile loop has been left
LoopOver == sync_configs # <<>> /\ pc \in {"notify", "done"}

IsExceptionResult(r) == ~r.success /\ r.error \in ExcMessages

\* C1: every discovered profile is run exactly once, one at a time and in
\* discovery order, whatever the outcome of the profiles before it.
C1_EveryProfileRunOnceInOrder ==
    /\ invoked = SubSeq(sync_configs, 1, idx)
    /\ Len(all_results) = IF RunnerActive THEN Len(invoked) - 1 ELSE Len(invoked)
    /\ \A i \in DOMAIN all_results : all_results[i].config_name = sync_configs[i]
    /\ LoopOver => invoked = sync_configs

C1_Witness ==
    /\ pc = "done"
    /\ Len(sync_configs) = 2
    /\ invoked = sync_configs
    /\ IsExceptionResult(all_results[1])
    /\ all_results[2].success

\* C2: an exception raised in a step of the pipeline never escapes the
\* runner; it becomes a returned failure result carrying its message, zero
\* counts and no ranked paper.
C2_ExceptionBecomesFailureResult ==
    /\ exc # <<>> => pc = "returned"
    /\ (pc = "returned" /\ exc # <<>>) =>
          /\ ~result[1].success
          /\ result[1].error = exc[1]
          /\ result[1].new_papers = 0
          /\ result[1].total_papers = 0
          /\ result[1].ranked_papers = <<>>
          /\ result[1].config_name = config_name

C2_Witness ==
    /\ pc = "returned"
    /\ exc = << <<"connection", "refused">> >>
    /\ papers # <<>>
    /\ events[Len(events) - 1] = "filter_and_rank_papers"

RECURSIVE SumNewPapers(_)
SumNewPapers(results) ==
    IF results = <<>> THEN 0
    ELSE (IF Head(results).success THEN Head(results).new_papers ELSE 0)
         + SumNewPapers(Tail(results))

\* C3: with at least one discovered profile, the notifier is invoked (once)
\* exactly when the new papers of the succeeded profiles sum to more than
\* zero; otherwise it is never invoked and process_all_configs returns true.
C3_NotifierIffNewPapers ==
    /\ (sync_configs # <<>> /\ pc \notin {"notify", "done"}) => notifier.calls = 0
    /\ LoopOver =>
          /\ notifier.calls = IF SumNewPapers(all_results) > 0 THEN 1 ELSE 0
          /\ (SumNewPapers(all_results) = 0 /\ pc = "done") => ret = "True"

C3_Witness ==
    /\ pc = "done"
    /\ Len(all_results) = 2
    /\ ~all_results[1].success
    /\ all_results[2].success
    /\ all_results[2].total_papers = 2
    /\ notifier.calls = 0
    /\ ret = "True"

\* C4: when discovery finds nothing, or raises, process_all_configs returns
\* false and has called neither the runner nor the notifier.
C4_EmptyOrFailedDiscovery ==
    (pc = "done" /\ sync_configs = <<>>) =>
        /\ ret = "False"
        /\ invoked = <<>>
        /\ all_results = <<>>
        /\ notifier = NotifierIdle

C4_Witness == pc = "done" /\ sync_configs = <<>> /\ events = <<>> /\ ret = "False"

\* C5: a sync call that raises does not fail the profile: the result is a
\* success with no new paper and the ranked papers as its total.
C5_SyncErrorDowngraded ==
    (pc = "returned" /\ Count(events, "sync_raised") > 0) =>
        /\ result[1].success
        /\ result[1].error = NoErrorKey
        /\ result[1].new_papers = 0
        /\ result[1].total_papers = Len(ranked_papers)
        /\ exc = <<>>

C5_Witness ==
    /\ pc = "returned"
    /\ Count(events, "sync_raised") = 1
    /\ Len(ranked_papers) = 2
    /\ result[1].success

\* position of the first occurrence of e in log, 0 if there is none
First(log, e) ==
    IF \E i \in DOMAIN log : log[i] = e
    THEN CHOOSE i \in DOMAIN log : log[i] = e /\ \A j \in 1..(i - 1) : log[j] # e
    ELSE 0

SyncOutcomes == {"sync_returned", "sync_raised"}

\* C6 as stated: every invocation of the runner clears BATCH_MODE exactly
\* once, after the sync step, whatever its exit path.
C6_ClearedOncePerInvocation ==
    pc = "returned" =>
        /\ Count(events, "clear") = 1
        /\ \E i \in DOMAIN events : events[i] \in SyncOutcomes /\ i < First(events, "clear")

\* C6 amended: an invocation that enters the sync step sets BATCH_MODE once
\* before the call and clears it exactly once after the call has returned or
\* raised; an invocation that exits without entering the sync step neither
\* sets nor clears it.
C6_ClearedOncePerSync ==
    /\ Count(events, "clear") <= 1
    /\ Count(events, "clear") > 0 =>
          \E i \in DOMAIN events : events[i] \in SyncOutcomes /\ i < First(events, "clear")
    /\ pc = "returned" =>
          /\ Count(events, "clear") = Count(events, "sync_papers_to_feishu")
          /\ Count(events, "set") = Count(events, "clear")
          /\ Count(events, "sync_papers_to_feishu") =
                IF result[1].success /\ ranked_papers # <<>> /\ FEISHU_AVAILABLE THEN 1 ELSE 0

C6_Witness ==
    /\ pc = "returned"
    /\ events[Len(events)] = "clear"
    /\ events[Len(events) - 1] = "sync_raised"
    /\ Count(events, "set") = 1

\* C7: started with BATCH_MODE unset, the flag is set only inside the sync
\* block: it is unset whenever the runner has returned, when the next
\* profile starts and when the notifier runs.
C7_FlagSetOnlyDuringSync ==
    /\ BATCH_MODE # Unset => pc \in {"sync_call", "sync_finally"}
    /\ pc \in {"returned", "loop", "exists", "notify", "done"} => BATCH_MODE = Unset

C7_Witness ==
    /\ pc = "exists"
    /\ Len(all_results) = 1
    /\ all_results[1].new_papers > 0
    /\ BATCH_MODE = Unset

\* the identifier without a leading "sync_"
StripLeadingSync(name) == IF StartsWith(name, SYNC_PREFIX) THEN Tail(name) ELSE name

\* C8: a profile whose document is missing yields a failure result whose
\* research area and table label are derived from the identifier by
\* removing the leading "sync_".
C8_MissingDocumentLabels ==
    (pc = "returned" /\ Count(events, "missing") > 0) =>
        /\ ~result[1].success
        /\ result[1].new_papers = 0
        /\ result[1].total_papers = 0
        /\ result[1].research_area = StripLeadingSync(config_name)
        /\ result[1].table_name = StripLeadingSync(config_name) \o <<PAPER_TABLE>>
        /\ events = <<"missing">>

\* the effective configuration enables date-range search without a start date
EnabledWithoutStart(fc) ==
    /\ HasKey(fc, "search")
    /\ HasKey(fc.v["search"], "date_range")
    /\ LET dr == fc.v["search"].v["date_range"]
       IN  /\ HasKey(dr, "enabled")
           /\ dr.v["enabled"] = Bool(TRUE)
           /\ (HasKey(dr, "start_date") => dr.v["start_date"] = Str(<<>>))

RetrievalCalls == {"get_papers_by_date_range", "get_recent_papers"}
CollaboratorCalls ==
    RetrievalCalls \cup {"filter_and_rank_papers", "sync_papers_to_feishu", "set"}

\* C9: with date-range search enabled and no start date, the runner returns
\* a failure result with a non-empty error and calls neither retrieval
\* method, nor the ranker, nor the sync.
C9_NoStartDateFailsWithoutRetrieval ==
    (final_cfg # None /\ EnabledWithoutStart(final_cfg)) =>
        /\ \A i \in DOMAIN events : events[i] \notin CollaboratorCalls
        /\ pc # "retrieved"
        /\ pc = "returned" =>
              /\ ~result[1].success
              /\ result[1].new_papers = 0
              /\ result[1].total_papers = 0
              /\ result[1].ranked_papers = <<>>
              /\ result[1].error # NoErrorKey
              /\ exc = <<>> => (result[1].error = DATE_ERROR /\ result[1].error # <<>>)

C9_Witness ==
    /\ pc = "returned"
    /\ cfg = DocLegacyNoStart
    /\ exc = <<>>
    /\ ~result[1].success

\* C10: an empty retrieval yields a success with zero counts and no
\* representative paper, with or without keywords, and neither the ranker
\* nor the sync is called.
C10_EmptyRetrievalSucceeds ==
    (pc = "returned" /\ Count(events, "retrieved") > 0 /\ papers = <<>>) =>
        /\ result[1].success
        /\ result[1].new_papers = 0
        /\ result[1].total_papers = 0
        /\ result[1].ranked_papers = <<>>
        /\ Count(events, "filter_and_rank_papers") = 0
        /\ Count(events, "sync_papers_to_feishu") = 0
        /\ Count(events, "set") = 0

C10_Witness ==
    /\ pc = "returned"
    /\ Count(events, "retrieved") = 1
    /\ papers = <<>>
    /\ HasKeywords(keywords)
    /\ result[1].success

\* C11: a retrieval that gave at least one paper, under a profile whose
\* normalised interest and exclusion lists are both empty, returns a success
\* counting the retrieved papers, with no new paper and no representative
\* paper; neither the ranking nor the sync collaborator is called and the
\* batch flag is not set.
C11_NoKeywordsReturnsUnranked ==
    (/\ pc = "returned"
     /\ Count(events, "retrieved") = 1
     /\ papers # <<>>
     /\ keywords.interest = <<>>
     /\ keywords.exclude = <<>>) =>
        /\ result[1].success
        /\ result[1].total_papers = Len(papers)
        /\ result[1].new_papers = 0
        /\ result[1].ranked_papers = <<>>
        /\ Count(events, "filter_and_rank_papers") = 0
        /\ Count(events, "sync_papers_to_feishu") = 0
        /\ Count(events, "set") = 0

C11_Witness ==
    /\ pc = "returned"
    /\ Count(events, "retrieved") = 1
    /\ Len(papers) = 2
    /\ keywords.interest = <<>>
    /\ keywords.exclude = <<>>
    /\ keywords.raw_interest # <<>>
    /\ result[1].total_papers = 2

RankingReturned == Count(events, "filter_and_rank_papers") = 1 /\ exc = <<>>

\* C12: when the ranking has run, the returned result counts the ranked
\* papers (not the retrieved ones), its new_papers is the count the sync
\* collaborator reported, clamped at zero, and 0 when the sync was not
\* attempted, and its representative list is the first ranked paper alone:
\* at most one element, none exactly when nothing was ranked.
C12_RankedResultCounts ==
    (pc = "returned" /\ RankingReturned) =>
        /\ result[1].success
        /\ result[1].total_papers = Len(ranked_papers)
        /\ Count(events, "sync_papers_to_feishu") = 0 => result[1].new_papers = 0
        /\ (Count(events, "sync_returned") = 1 /\ sync_result.t = "int") =>
              result[1].new_papers = (IF sync_result.n < 0 THEN 0 ELSE sync_result.n)
        /\ result[1].new_papers >= 0
        /\ Len(result[1].ranked_papers) <= 1
        /\ result[1].ranked_papers = <<>> <=> ranked_papers = <<>>
        /\ ranked_papers # <<>> => result[1].ranked_papers = <<ranked_papers[1]>>

C12_Witness ==
    /\ pc = "returned"
    /\ RankingReturned
    /\ Len(papers) = 2
    /\ Len(ranked_papers) = 1
    /\ sync_result = PyInt(-1)
    /\ Count(events, "sync_returned") = 1
    /\ result[1].new_papers = 0
    /\ result[1].total_papers = 1

\* C13: a failed notification leaves the verdict of the batch alone: once
\* the notifier has been called, process_all_configs returns True whether
\* the transport reported a failure, the notifier raised, or it succeeded.
C13_NotificationFailureKeepsVerdict ==
    (pc = "done" /\ notifier.calls = 1) => ret = "True"

RECURSIVE CountSucceeded(_)
CountSucceeded(results) ==
    IF results = <<>> THEN 0
    ELSE (IF Head(results).success THEN 1 ELSE 0) + CountSucceeded(Tail(results))

\* C18: when the loop is over there is one collected result per discovered
\* profile, the succeeded count is the number of results with success, the
\* failed count (discovered - succeeded) is the number of results without,
\* and the total of new papers is the sum of new_papers over the succeeded
\* results.
C18_Tallies ==
    LoopOver =>
        /\ Len(all_results) = Len(sync_configs)
        /\ successful_configs = CountSucceeded(all_results)
        /\ Len(sync_configs) - successful_configs =
              Cardinality({i \in DOMAIN all_results : ~all_results[i].success})
        /\ total_new_papers = SumNewPapers(SelectSeq(all_results, LAMBDA r : r.success))

C18_Witness ==
    /\ pc = "done"
    /\ Len(sync_configs) = 2
    /\ successful_configs = 1
    /\ ~all_results[1].success
    /\ all_results[2].success
    /\ all_results[2].new_papers = 2
    /\ total_new_papers = 2

\* a result the summary reports: a success with new papers
Contributes(r) == r.success /\ r.new_papers > 0

\* the topic a result is reported under: its table label without the table
\* suffix, trimmed, or its research area when nothing is left of the label
TopicKey(r) ==
    LET label == r.table_name
        name == IF label # <<>> /\ label[Len(label)] = PAPER_TABLE
                THEN SubSeq(label, 1, Len(label) - 1) ELSE label
    IN  IF Strip(name) # <<>> THEN Strip(name) ELSE r.research_area

Topics(results) == {TopicKey(results[i]) : i \in {j \in DOMAIN results : Contributes(results[j])}}

\* the last contributing result of a topic
LastOf(results, topic) ==
    LET hits == {i \in DOMAIN results :
                    Contributes(results[i]) /\ TopicKey(results[i]) = topic}
    IN  results[CHOOSE i \in hits : \A j \in hits : j <= i]

\* C14: the statistics handed to the transport have one entry per topic of
\* a result with success and new_papers > 0 and no other entry; the topic
\* is the table label without its suffix, or the research area when that
\* is empty; when several such results share a topic the entry holds the
\* values of the last of them, not their sum.
C14_StatsLastWriteWins ==
    \A k \in DOMAIN notifier.dispatched :
        LET stats == notifier.dispatched[k].update_stats
        IN  /\ DOMAIN stats = Topics(all_results)
            /\ \A topic \in DOMAIN stats :
                 stats[topic] =
                     [new_count |-> LastOf(all_results, topic).new_papers,
                      total_count |-> LastOf(all_results, topic).total_papers,
                      table_name |-> LastOf(all_results, topic).table_name]

C14_Witness ==
    /\ Len(notifier.dispatched) = 1
    /\ Len(all_results) = 2
    /\ Contributes(all_results[1]) /\ Contributes(all_results[2])
    /\ TopicKey(all_results[1]) = TopicKey(all_results[2])
    /\ all_results[1].new_papers = 2
    /\ all_results[2].new_papers = 1
    /\ notifier.dispatched[1].update_stats[<<Robotics>>].new_count = 1

\* C15: after the pass over the results the representative-paper map has
\* the keys of the statistics map, and each of its entries is one paper:
\* the representative paper of the (last) result of the topic when it has
\* one, otherwise a stand-in whose identifier is built from that result's
\* profile identifier.
C15_OneRepresentativePerTopic ==
    \A k \in DOMAIN notifier.dispatched :
        LET shown == notifier.dispatched[k].papers_by_field
        IN  /\ DOMAIN shown = DOMAIN notifier.dispatched[k].update_stats
            /\ \A topic \in DOMAIN shown :
                 LET r == LastOf(all_results, topic)
                 IN  /\ Len(shown[topic]) = 1
                     /\ IF r.ranked_papers # <<>>
                        THEN shown[topic][1] = r.ranked_papers[1]
                        ELSE /\ shown[topic][1].arxiv_id = <<"batch-">> \o r.config_name
                             /\ \A j \in DOMAIN all_results :
                                  \A q \in DOMAIN all_results[j].ranked_papers :
                                     shown[topic][1] # all_results[j].ranked_papers[q]

C15_Witness ==
    /\ Len(notifier.dispatched) = 1
    /\ Len(all_results) = 2
    /\ all_results[1].ranked_papers # <<>>
    /\ Contributes(all_results[2])
    /\ all_results[2].ranked_papers = <<>>
    /\ TopicKey(all_results[1]) # TopicKey(all_results[2])
    /\ Contributes(all_results[1])
    /\ notifier.dispatched[1].papers_by_field[TopicKey(all_results[2])][1].arxiv_id
          = <<"batch-", "sync_", "cv">>

NotifierReturned == pc = "done" /\ notifier.calls = 1

SomeContributes == \E i \in DOMAIN all_results : Contributes(all_results[i])

\* what the claim says of a call with no contributing result, and of a call
\* with one
QuietCall == notifier.dispatched = <<>> /\ notifier.returned = <<TRUE>>
DispatchingCall ==
    /\ Len(notifier.dispatched) = 1
    /\ DOMAIN notifier.dispatched[1] = {"update_stats", "papers_by_field", "table_links"}
    /\ notifier.transport # <<>>
    /\ notifier.returned = notifier.transport

\* C16 as stated: a call of the notifier dispatches at most once; with no
\* contributing result it returns True without calling
\* notify_paper_updates, otherwise it calls it exactly once with the three
\* maps and returns the boolean it got.
C16_OneDispatchPerCall ==
    NotifierReturned =>
        /\ Len(notifier.dispatched) <= 1
        /\ IF SomeContributes THEN DispatchingCall ELSE QuietCall

\* C16, amended: the above holds of the calls made with the sync module
\* available in which nothing raises; with the module unavailable, or with
\* an exception before the dispatch, the notifier returns False without
\* calling notify_paper_updates, and a raising dispatch is still the only
\* one.
C16_OneDispatchPerCompletedCall ==
    NotifierReturned =>
        /\ Len(notifier.dispatched) <= 1
        /\ (FEISHU_AVAILABLE /\ notifier.raised = <<>>) =>
              IF SomeContributes THEN DispatchingCall ELSE QuietCall
        /\ (~FEISHU_AVAILABLE \/ (notifier.raised # <<>>
                                  /\ notifier.raised # <<"notify_paper_updates">>)) =>
              /\ notifier.dispatched = <<>>
              /\ notifier.returned = <<FALSE>>

C16_Witness ==
    /\ NotifierReturned
    /\ FEISHU_AVAILABLE
    /\ notifier.raised = <<>>
    /\ SomeContributes
    /\ Len(all_results) = 2
    /\ notifier.transport = <<FALSE>>
    /\ notifier.returned = <<FALSE>>

\* C17: no exception leaves the notifier: when loading the default
\* document, building the transport, rendering a table link or the
\* dispatch raises, the notifier returns False.
C17_NotifierCatchesEverything ==
    /\ notifier.raised # <<>> =>
          /\ NotifierReturned
          /\ notifier.returned = <<FALSE>>
    /\ NotifierReturned => notifier.returned \in {<<TRUE>>, <<FALSE>>}

C17_Witness ==
    /\ NotifierReturned
    /\ notifier.raised = <<"generate_table_link">>
    /\ notifier.returned = <<FALSE>>
    /\ SomeContributes

KeywordsLoaded == pc = "search" /\ Count(events, "keywords") = 1

\* the raw interest list of the document the keywords were loaded from
RawInterest == Get(final_cfg, "interest_keywords", List(<<>>)).v

IsBlank(e) == \A i \in DOMAIN e : e[i] = SPACE

\* t is e without its leading and trailing blanks
IsTrimOf(t, e) ==
    /\ t # <<>> => t[1] # SPACE /\ t[Len(t)] # SPACE
    /\ \E i \in 0..Len(e) :
         /\ i + Len(t) <= Len(e)
         /\ \A j \in 1..Len(e) :
              IF j > i /\ j <= i + Len(t) THEN e[j] = t[j - i] ELSE e[j] = SPACE

\* a raw entry that is neither blank nor, once trimmed, a comment
IsKept(e) == ~IsBlank(e) /\ \A t \in RawKeywords : IsTrimOf(t, e) => t[1] # "#"

\* C19: the filtered list holds exactly the entries of the raw list that
\* are not blank and do not start with '#' once trimmed, each of them
\* trimmed, in their order and with their repetitions; it holds no blank
\* and no comment entry, and a list that is already filtered is returned
\* as it is.
C19_FilterKeywords ==
    KeywordsLoaded =>
        LET kept == SelectSeq(RawInterest, IsKept)
        IN  /\ Len(keywords.interest) = Len(kept)
            /\ \A i \in DOMAIN kept : IsTrimOf(keywords.interest[i], kept[i])
            /\ \A i \in DOMAIN keywords.interest :
                 ~IsBlank(keywords.interest[i]) /\ keywords.interest[i][1] # "#"
            /\ (kept = RawInterest /\ \A i \in DOMAIN kept : IsTrimOf(kept[i], kept[i])) =>
                  keywords.interest = RawInterest

C19_Witness ==
    /\ KeywordsLoaded
    /\ RawInterest = << <<SPACE, "a">>, <<SPACE, "#">> >>
    /\ keywords.interest = << <<"a">> >>

Merged == pc = "init" /\ Count(events, "merge") = 1

\* the fields of a document: the paths to its values that are not mappings
RECURSIVE Leaves(_, _)
Leaves(node, path) ==
    IF IsMap(node)
    THEN UNION {Leaves(node.v[k], Append(path, k)) : k \in DOMAIN node.v}
    ELSE {<<path, node>>}

IsPrefix(p, q) == Len(p) <= Len(q) /\ SubSeq(q, 1, Len(p)) = p

\* the document gives a value at the path (or above it)
Defines(doc, path) == \E l \in Leaves(doc, <<>>) : IsPrefix(l[1], path)

\* C20 as stated: the merged document is the recursive key-wise merge of
\* the base defaults and the profile document: every field of the profile
\* document is in it, every base field the profile document does not give
\* is in it with its base value, it has no other field, and it has every
\* section of the base defaults.
C20_RecursiveKeyWiseMerge ==
    Merged =>
        LET base == Leaves(base_cfg, <<>>)
            override == Leaves(cfg, <<>>)
            merged == Leaves(final_cfg, <<>>)
        IN  /\ \A section \in DOMAIN base_cfg.v : HasKey(final_cfg, section)
            /\ override \subseteq merged
            /\ \A l \in base : ~Defines(cfg, l[1]) => l \in merged
            /\ merged \subseteq base \cup override

\* the legacy name of a canonical section
LegacySection ==
    [search |-> "search_config", intelligent_matching |-> "intelligent_matching_config",
     download |-> "download_config", display |-> "display_config",
     output |-> "output_config"]

\* the path of a canonical field in the legacy section, and back
LegacyPath(path) == <<LegacySection[path[1]]>> \o Tail(path)
CanonicalPath(path) ==
    <<CHOOSE section \in DOMAIN LegacySection : LegacySection[section] = path[1]>>
        \o Tail(path)
InCanonicalSection(path) == path[1] \in DOMAIN LegacySection
InLegacySection(path) == \E section \in DOMAIN LegacySection : LegacySection[section] = path[1]

\* the profile document gives the canonical field in a legacy section
LegacyDefines(doc, path) == InCanonicalSection(path) /\ Defines(doc, LegacyPath(path))

\* C20, amended: the merged document has every section of the base
\* defaults; a field of the profile document, and a base field the profile
\* document does not give, is in it with that value unless a legacy section
\* of the profile document gives the field; the fields of the legacy
\* sections are in it under the canonical section too, and it has no other
\* field.
C20_MergeWithLegacySections ==
    Merged =>
        LET base == Leaves(base_cfg, <<>>)
            override == Leaves(cfg, <<>>)
            merged == Leaves(final_cfg, <<>>)
            remapped == {<<CanonicalPath(l[1]), l[2]>> : l \in {o \in override : InLegacySection(o[1])}}
        IN  /\ \A section \in DOMAIN base_cfg.v : HasKey(final_cfg, section)
            /\ \A l \in override : ~LegacyDefines(cfg, l[1]) => l \in merged
            /\ \A l \in base :
                 (~Defines(cfg, l[1]) /\ ~LegacyDefines(cfg, l[1])) => l \in merged
            /\ remapped \subseteq merged
            /\ merged \subseteq base \cup override \cup remapped

C20_Witness ==
    /\ Merged
    /\ HasKey(cfg, "search") /\ HasKey(cfg.v["search"], "field")
    /\ ~HasKey(cfg, "search_config")
    /\ HasKey(cfg, "intelligent_matching")
    /\ HasKey(cfg, "feishu")
    /\ final_cfg.v["search"].v["field"] = Str(<<"cs.RO">>)
    /\ final_cfg.v["search"].v["days"] = Num("7")
    /\ final_cfg.v["intelligent_matching"].v["score_weights"].v["semantic"] = Num("0.5")
    /\ final_cfg.v["intelligent_matching"].v["score_weights"].v["base"] = Num("1.0")
    /\ HasKey(final_cfg, "feishu")
    /\ HasKey(final_cfg, "output")

\* the value a canonical field has after the key-wise merge alone: the
\* profile document's where it gives one, the base default's otherwise
GenericLeaves ==
    Leaves(cfg, <<>>) \cup {l \in Leaves(base_cfg, <<>>) : ~Defines(cfg, l[1])}

\* C21: every field of a legacy section of the profile document has the
\* legacy value in the merged canonical section, whatever the base default
\* and whatever the profile document's own canonical section say; the
\* canonical fields no legacy section gives keep the value of the key-wise
\* merge.
C21_LegacySectionWins ==
    Merged =>
        LET merged == Leaves(final_cfg, <<>>)
        IN  /\ \A l \in Leaves(cfg, <<>>) :
                 InLegacySection(l[1]) => <<CanonicalPath(l[1]), l[2]>> \in merged
            /\ \A l \in GenericLeaves :
                 (InCanonicalSection(l[1]) /\ ~LegacyDefines(cfg, l[1])) => l \in merged
            /\ \A l \in merged :
                 (InCanonicalSection(l[1]) /\ ~LegacyDefines(cfg, l[1])) => l \in GenericLeaves

C21_Witness ==
    /\ Merged
    /\ HasKey(cfg, "search") /\ HasKey(cfg.v["search"], "days")
    /\ cfg.v["search"].v["days"] = Num("3")
    /\ HasKey(cfg, "search_config") /\ HasKey(cfg.v["search_config"], "days")
    /\ HasKey(cfg, "display") /\ HasKey(cfg, "display_config")
    /\ HasKey(cfg, "intelligent_matching") /\ HasKey(cfg, "intelligent_matching_config")
    /\ final_cfg.v["search"].v["days"] = Num("1")
    /\ final_cfg.v["search"].v["max_results"] = Num("300")
    /\ HasKey(final_cfg.v["search"], "date_range")
    /\ final_cfg.v["display"].v["stats"] = Bool(TRUE)
    /\ final_cfg.v["intelligent_matching"].v["score_weights"].v["base"] = Num("2.0")
    /\ final_cfg.v["intelligent_matching"].v["score_weights"].v["semantic"] = Num("0.5")

MergeStepDone == pc = "init" /\ (Count(events, "merge") + Count(events, "unmerged")) = 1

\* C23: the base defaults are merged into the profile document exactly
\* when it has a search_config or a user_profile section; a document with
\* neither is the effective configuration as it is, with no base default
\* filled in.
C23_MergeOnlyExtendedDocuments ==
    MergeStepDone =>
        IF "search_config" \in DOMAIN cfg.v \/ "user_profile" \in DOMAIN cfg.v
        THEN /\ Count(events, "merge") = 1
             /\ \A section \in DOMAIN base_cfg.v : HasKey(final_cfg, section)
             /\ \A l \in Leaves(cfg, <<>>) : ~InCanonicalSection(l[1]) => l \in Leaves(final_cfg, <<>>)
        ELSE /\ Count(events, "unmerged") = 1
             /\ final_cfg = cfg

C23_Witness ==
    /\ MergeStepDone
    /\ DOMAIN cfg.v = {"search", "download_config", "feishu"}
    /\ final_cfg = cfg
    /\ ~HasKey(final_cfg, "download")

SelfMerged == pc = "merge_configs returned"

LegacyAgrees(doc) ==
    \A l \in Leaves(doc, <<>>) :
        InLegacySection(l[1]) => <<CanonicalPath(l[1]), l[2]>> \in Leaves(doc, <<>>)

SyncReturned == pc = "returned" /\ Count(events, "sync_returned") = 1

\* C24: when the sync collaborator returns a boolean, False for a failure
\* or the True of older versions, the result reports no new paper; only an
\* integer count is reported as new_papers.
C24_BooleanSyncResultCountsZero ==
    (SyncReturned /\ sync_result.t = "bool") => result[1].new_papers = 0

\* the stand-in paper the notifier makes up for a topic
IsPlaceholder(paper) == paper.arxiv_id # <<>> /\ paper.arxiv_id[1] = "batch-"

RunnerResults == (IF pc = "returned" THEN {result[1]} ELSE {}) \cup Range(all_results)

\* C25: a result of the runner with new papers is a success with at least
\* one paper in total and exactly one representative paper; a failed
\* result has no new paper, no paper in total and no representative paper;
\* so the notifier of a batch run never makes up a stand-in paper.
C25_NewPapersComeWithRepresentative ==
    /\ \A r \in RunnerResults :
         /\ r.new_papers > 0 =>
               r.success /\ r.total_papers >= 1 /\ Len(r.ranked_papers) = 1
         /\ ~r.success =>
               r.new_papers = 0 /\ r.total_papers = 0 /\ r.ranked_papers = <<>>
    /\ Count(events, "sync_papers_to_feishu") <= 1
    /\ Count(events, "sync_papers_to_feishu") = 1 => ranked_papers # <<>>
    /\ \A k \in DOMAIN notifier.dispatched :
         \A topic \in DOMAIN notifier.dispatched[k].papers_by_field :
            \A q \in DOMAIN notifier.dispatched[k].papers_by_field[topic] :
               ~IsPlaceholder(notifier.dispatched[k].papers_by_field[topic][q])

C25_Witness ==
    /\ pc = "done"
    /\ Len(notifier.dispatched) = 1
    /\ Len(all_results) = 2
    /\ ~all_results[1].success
    /\ all_results[2].new_papers = 2
    /\ all_results[2].total_papers = 2
    /\ DOMAIN notifier.dispatched[1].papers_by_field = {<<Robotics>>}
    /\ notifier.dispatched[1].papers_by_field[<<Robotics>>] = all_results[2].ranked_papers

\* C26: the runner leaves BATCH_MODE as it found it on every exit path;
\* started with BATCH_MODE=1 in the environment, every invocation returns
\* with BATCH_MODE=1.
C26_PresetFlagSurvives ==
    pc = "returned" => BATCH_MODE = "1"

\* C27: in a dispatched payload every topic with a link has statistics,
\* and its link is the one made for the table the statistics of the topic
\* name.
C27_LinkMatchesStatsTable ==
    \A k \in DOMAIN notifier.dispatched :
        LET payload == notifier.dispatched[k]
        IN  /\ DOMAIN payload.table_links \subseteq DOMAIN payload.update_stats
            /\ \A topic \in DOMAIN payload.table_links :
                 payload.table_links[topic] = TableLink(payload.update_stats[topic].table_name)

\* C28: the notifier is called by the batch only with a result that is a
\* success with new papers among the results, so it never returns through
\* its nothing-to-send branch; and without the table-sync module no sync
\* call is made, every succeeded profile reports no new paper and the
\* notifier is not called.
C28_NotifierCalledWithSomethingToSend ==
    /\ notifier.calls > 0 =>
          /\ \E i \in DOMAIN all_results :
                all_results[i].success /\ all_results[i].new_papers > 0
          /\ (pc = "done" /\ notifier.raised = <<>>) => Len(notifier.dispatched) = 1
    /\ ~FEISHU_AVAILABLE =>
          /\ Count(events, "sync_papers_to_feishu") = 0
          /\ \A r \in RunnerResults : r.success => r.new_papers = 0
          /\ total_new_papers = 0
          /\ notifier.calls = 0

C28_Witness ==
    /\ pc = "done"
    /\ notifier.calls = 1
    /\ notifier.returned = <<TRUE>>
    /\ Len(all_results) = 2
    /\ all_results[1].new_papers = 0
    /\ all_results[2].new_papers > 0
====
